---- MODULE Spec2Model ----
(***************************************************************************)
(* TypeScriptLspClient (src/unnamed/part_000, imported as ./lsp/client.js): *)
(* the client that owns the tsgo subprocess and the JSON-RPC connection,    *)
(* performs the initialize/initialized handshake, mirrors open documents    *)
(* and caches pushed diagnostics.                                           *)
(*                                                                          *)
(* Granularity.  The client runs on a single-threaded event loop, so code   *)
(* between two suspension points on real I/O runs without interleaving.     *)
(* One action is one such run: it starts where an I/O completion (file      *)
(* read, server message, timer, process event) or an outside call resumes   *)
(* the code and ends where every continuation it made runnable has reached  *)
(* its next wait on I/O.  Awaits that are satisfied inside the same run     *)
(* (the return of ensureDocument, an already settled initializePromise,     *)
(* the write of a notification) do not split an action.                     *)
(*                                                                          *)
(* The JSON-RPC library (vscode-jsonrpc) is modelled at its boundary:       *)
(* messages are written in the order the send calls are made (wire), a      *)
(* request stays pending until its response arrives or the connection is    *)
(* disposed, and dispose() rejects every pending request.                   *)
(***************************************************************************)
EXTENDS Integers, Sequences, FiniteSets, TLC

\* ---------------------------------------------------------------- bounds
NumCalls == 2      \* calls of initialize() and of the analysis operations
NumShutdowns == 2  \* calls of shutdown()
MaxCalls == 3      \* calls in one behaviour, of either sort
MaxEdits == 1      \* changes of a file on disk by the environment
MaxPublish == 2    \* publishDiagnostics notifications pushed by the server
MaxEvents == 2     \* edits, notifications and exits in one behaviour
MaxLen == 3        \* entries in the array a definition request is answered with
MaxSegments == 3   \* segments of the path given to toAbsolutePath

Calls == 1..NumCalls
Shutdowns == 1..NumShutdowns

\* Files inside the workspace root (by URI) and one path that leaves it.
Docs == {"a.ts", "b.ts"}
Outside == "../x.ts"
Targets == Docs \cup {Outside}
NoTarget == "-"

\* File contents; Missing stands for a file that cannot be read.
Contents == {"c1", "c2"}
Missing == "missing"
NoText == "-"

\* Diagnostic lists a report can carry.
DiagLists == {<<>>, <<"e1">>}
NoReport == [uri |-> "-", diagnostics |-> <<>>]

\* The methods of the class a caller can invoke.
RequestKinds == {"getHover", "getDefinition", "findReferences", "documentSymbols"}
AnalysisKinds == RequestKinds \cup {"getDiagnostics"}
Kinds == AnalysisKinds \cup {"initialize"}

\* What the server can answer to an analysis request.
Responses == {"null", "value"}

NoDoc == [version |-> 0, text |-> NoText]

\* What a textDocument/definition request can be answered with: null, one
\* Location, or an array of Location and LocationLink entries.  A link may
\* come without targetSelectionRange; an entry whose targetUri is not a
\* string is no link.
Uris == {"u1", "u2"}
Ranges == {"r1", "r2"}
NotAString == "#42"
Locations == [uri : Uris, range : Ranges]
LinksWithSelection ==
    [targetUri : Uris, targetRange : Ranges, targetSelectionRange : Ranges]
LinksWithoutSelection == [targetUri : Uris, targetRange : Ranges]
LocationLinks == LinksWithSelection \cup LinksWithoutSelection
OddEntries == {[uri |-> "u1", range |-> "r1", targetUri |-> NotAString]}
Entries == Locations \cup LocationLinks \cup OddEntries
NullAnswer == [kind |-> "null", value |-> <<>>]
Answers ==
    {NullAnswer}
      \cup {[kind |-> "location", value |-> l] : l \in Locations}
      \cup {[kind |-> "array", value |-> a] :
               a \in UNION {[1..n -> Entries] : n \in 0..MaxLen}}
NoNorm == [input |-> NullAnswer, returned |-> FALSE, output |-> <<>>]

\* Paths.  A name is a sequence of characters; an absolute, normalized path
\* is the sequence of its names below "/".  The workspace root is /w/r.  An
\* input path is absolute or relative and made of segments: "..", ".", or
\* the name of a file or directory, one of which begins with two dots.
Up == <<".", ".">>
Dot == <<".">>
Names == {<<"a">>, <<".", ".", "b">>, <<"w">>, <<"r">>}
Segments == {Up, Dot} \cup Names
WorkspaceRoot == << <<"w">>, <<"r">> >>
InputPaths ==
    [absolute : BOOLEAN,
     segments : UNION {[1..n -> Segments] : n \in 0..MaxSegments}]
NoResult == [threw |-> FALSE, path |-> <<>>]
NoPathCall == [input |-> [absolute |-> FALSE, segments |-> <<>>],
               returned |-> FALSE, result |-> NoResult]

\* TOOL_NAMES of server.ts and the client method each handler calls.
ToolNames == {"typescript-hover", "typescript-definition", "typescript-references",
              "typescript-document-symbols", "typescript-diagnostics"}
ClientMethod(tool) ==
    CASE tool = "typescript-hover" -> "getHover"
      [] tool = "typescript-definition" -> "getDefinition"
      [] tool = "typescript-references" -> "findReferences"
      [] tool = "typescript-document-symbols" -> "documentSymbols"
      [] tool = "typescript-diagnostics" -> "getDiagnostics"

\* No tool call, and no CLI process.  In cli, pc is where the process is
\* ("start", "awaitInit", "listening", "shuttingDown", "exited"), connected
\* tells that server.connect(transport) was called, exitCode is the argument
\* of shutdown(exitCode) and sid the call of lspClient.shutdown() it made;
\* sigSid is the call of lspClient.shutdown() made for a signal (0: none) and
\* closed tells that server.close() has closed a connected transport.
NoTool == [tool |-> "-", filePath |-> NoTarget]
NoCli == [pc |-> "none", connected |-> FALSE, exitCode |-> -1, sid |-> 0,
          sigSid |-> 0, closed |-> FALSE]

VARIABLES
    child,              \* this.child: "null" or "handle"
    connection,         \* this.connection: "null" or "open"
    initializePromise,  \* this.initializePromise: "null", "pending", "resolved", "rejected"
    initError,          \* the rejection reason of initializePromise
    shuttingDown,       \* this.shuttingDown
    openDocuments,      \* this.openDocuments: uri -> DocumentState (NoDoc: no entry)
    diagnostics,        \* this.diagnostics: uri -> PublishDiagnosticsParams (NoReport: no entry)
    listeners,          \* this.diagnosticsEvents: uri -> calls whose handler is registered
    timers,             \* calls whose getDiagnostics timer is pending
    timeoutHandle,      \* the timer of start(): "null", "pending", "fired", "cleared"
    initRequest,        \* the initialize request: "none", "pending", "answered", "rejected"
    proc,               \* the subprocess: "none", "running", "silent", "spawnFailed",
                        \* "errored", "killed", "exited"
    spawnCount,         \* number of spawn() calls
    killCount,          \* number of child.kill() calls
    wire,               \* messages written to the server, in order
    effects,            \* what shutdown() did to the connection and the child, in order
    log,                \* the entries written to this.logger, in order
    disk,               \* uri -> content on disk
    edits,              \* number of changes of the disk so far
    publishes,          \* number of publishDiagnostics notifications so far
    received,           \* the publishDiagnostics notifications received, in order
    calls,              \* id -> the state of that initialize() or analysis call
    shutdowns,          \* id -> the state of that shutdown() call
    operation,          \* the request operation the callers use
    norm,               \* one application of normalizeLocations: input and output
    pathCall,           \* one application of toAbsolutePath: input and result
    tools,              \* id -> the MCP tool call that made that call, if any
    cli                 \* the process of cli.ts: where main() is, and the exit code

vars == <<child, connection, initializePromise, initError, shuttingDown,
          openDocuments, diagnostics, listeners, timers, timeoutHandle,
          initRequest, proc, spawnCount, killCount, wire, effects, log, disk,
          edits, publishes, received, calls, shutdowns, operation,
          norm, pathCall, tools, cli>>

clientVars == <<child, connection, initializePromise, initError, shuttingDown,
                timeoutHandle, initRequest, proc, spawnCount, killCount, effects, log>>
startVars == <<child, connection, initializePromise, timeoutHandle,
               initRequest, proc, spawnCount, log>>
docVars == <<openDocuments>>
diagVars == <<diagnostics, listeners, timers, publishes, received>>
envVars == <<disk, edits, operation>>
\* What lies outside the client object: the answer being normalized, the MCP
\* tool handlers of server.ts and the process of cli.ts.
hostVars == <<norm, pathCall, tools, cli>>

\* ---------------------------------------------------------------- messages
Msg(method, id, uri, version, text) ==
    [method |-> method, id |-> id, uri |-> uri, version |-> version, text |-> text]

InitializeMsg == Msg("initialize", 0, NoTarget, 0, NoText)
InitializedMsg == Msg("initialized", 0, NoTarget, 0, NoText)
ShutdownMsg == Msg("shutdown", 0, NoTarget, 0, NoText)
ExitMsg == Msg("exit", 0, NoTarget, 0, NoText)
DidOpenMsg(uri, version, text) == Msg("textDocument/didOpen", 0, uri, version, text)
DidChangeMsg(uri, version, text) == Msg("textDocument/didChange", 0, uri, version, text)

MethodOf(kind) ==
    CASE kind = "getHover" -> "textDocument/hover"
      [] kind = "getDefinition" -> "textDocument/definition"
      [] kind = "findReferences" -> "textDocument/references"
      [] kind = "documentSymbols" -> "textDocument/documentSymbol"
      [] OTHER -> "-"

RequestMsg(c, kind, uri) == Msg(MethodOf(kind), c, uri, 0, NoText)

AnalysisMethods == {MethodOf(k) : k \in RequestKinds}
DocNotifications == {"textDocument/didOpen", "textDocument/didChange"}

\* ---------------------------------------------------------------- log
Entry(level, message) == [level |-> level, message |-> message]
StartingLog == Entry("info", "Starting tsgo language server")
InitializedLog == Entry("info", "tsgo language server initialized")
SpawnFailedLog == Entry("error", "Failed to start tsgo process")
UnexpectedExitLog == Entry("error", "tsgo process exited unexpectedly")
ShutdownFailedLog == Entry("warn", "Failed to send shutdown request")

\* ---------------------------------------------------------------- calls
\* resolves counts the calls of resolve() on the promise getDiagnostics makes;
\* late tells that the call was made after a shutdown() had disposed the
\* connection.
IdleCall == [pc |-> "idle", kind |-> "-", target |-> NoTarget, text |-> NoText,
             result |-> "-", report |-> NoReport, err |-> "none", resolves |-> 0,
             late |-> FALSE]

ClientInit ==
    /\ child = "null"
    /\ connection = "null"
    /\ initializePromise = "null"
    /\ initError = "none"
    /\ shuttingDown = FALSE
    /\ openDocuments = [d \in Docs |-> NoDoc]
    /\ diagnostics = [d \in Docs |-> NoReport]
    /\ listeners = [d \in Docs |-> {}]
    /\ timers = {}
    /\ timeoutHandle = "null"
    /\ initRequest = "none"
    /\ proc = "none"
    /\ spawnCount = 0
    /\ killCount = 0
    /\ wire = <<>>
    /\ effects = <<>>
    /\ log = <<>>
    /\ disk = [d \in Docs |-> "c1"]
    /\ edits = 0
    /\ publishes = 0
    /\ received = <<>>
    /\ calls = [c \in Calls |-> IdleCall]
    /\ shutdowns = [s \in Shutdowns |-> [pc |-> "idle", err |-> "none"]]
    /\ operation \in RequestKinds

\* The client object alone, driven by its owner: nothing is being normalized,
\* no tool handler is registered and no CLI process runs.
Init ==
    /\ ClientInit
    /\ norm = NoNorm
    /\ pathCall = NoPathCall
    /\ tools = [c \in Calls |-> NoTool]
    /\ cli = NoCli

\* ---------------------------------------------------------------- initialize
\* start(): spawn, connect, send the initialize request, arm the timer; the
\* function then waits for the race.  The spawn itself either succeeds or
\* fails; a failure is reported later by the child's "error" event.  A
\* subprocess that runs either talks ("running") or never writes a message
\* ("silent").
start ==
    /\ log' = Append(log, StartingLog)
    /\ proc' \in {"running", "silent", "spawnFailed"}
    /\ spawnCount' = spawnCount + 1
    /\ child' = "handle"
    /\ connection' = "open"
    /\ wire' = Append(wire, InitializeMsg)
    /\ initRequest' = "pending"
    /\ timeoutHandle' = "pending"
    /\ initializePromise' = "pending"

\* Mutant: initialize() without the memo, every call runs start().
initializeNoMemo == start

\* Mutant: initialize() that forgets a rejected promise and starts again.
initializeRetry ==
    IF initializePromise \in {"pending", "resolved"}
    THEN UNCHANGED <<startVars, wire>>
    ELSE start

\* Mutant: initialize() starts again when the connection is gone.
initializeRestartsClosed ==
    IF initializePromise # "null" /\ connection # "null"
    THEN UNCHANGED <<startVars, wire>>
    ELSE start

\* initialize(): memoized; only the first call runs start().
initialize ==
    IF initializePromise # "null"
    THEN UNCHANGED <<startVars, wire>>
    ELSE start

\* ---------------------------------------------------------------- helpers
SetCall(cs, c, pc, err) == [cs EXCEPT ![c].pc = pc, ![c].err = err]

\* toAbsolutePath(root, inputPath) of ../util/path.js: throws for a path that
\* resolves outside the workspace root.
toAbsolutePath(target) ==
    IF target = Outside THEN [threw |-> TRUE, path |-> NoTarget]
    ELSE [threw |-> FALSE, path |-> target]

\* The continuation of `await this.initialize()` in a call, once the promise
\* has settled with `promise` (and `error`): initialize() callers get the
\* outcome; analysis operations enter ensureDocument, which resolves the path
\* and starts reading the file.
afterInitialize(call, promise, error) ==
    IF promise = "rejected" THEN [call EXCEPT !.pc = "failed", !.err = error]
    ELSE IF call.kind = "initialize"
         THEN [call EXCEPT !.pc = "done", !.result = "InitializeResult"]
    ELSE IF toAbsolutePath(call.target).threw
         THEN [call EXCEPT !.pc = "failed", !.err = "PathEscape"]
    ELSE [call EXCEPT !.pc = "reading"]

\* Every call suspended on initializePromise resumes when it settles.
settleWaiters(cs, promise, error) ==
    [c \in Calls |-> IF cs[c].pc = "awaitInit"
                     THEN afterInitialize(cs[c], promise, error)
                     ELSE cs[c]]

\* assertConnection(): throws when this.connection is null.
assertConnection == connection # "null"

\* Mutant: the new DocumentState is never put into openDocuments.
ensureDocumentNoRegister(uri, text) ==
    LET existing == openDocuments[uri] IN
    IF existing = NoDoc THEN
        IF ~assertConnection
        THEN [threw |-> TRUE, sent |-> <<>>, docs |-> openDocuments]
        ELSE [threw |-> FALSE,
              sent |-> <<DidOpenMsg(uri, 1, text)>>,
              docs |-> openDocuments]
    ELSE [threw |-> FALSE, sent |-> <<>>, docs |-> openDocuments]

\* Mutant: an open document is re-sent with a bumped version whether or not
\* its text changed.
ensureDocumentBlindBump(uri, text) ==
    LET existing == openDocuments[uri] IN
    IF ~assertConnection
    THEN [threw |-> TRUE, sent |-> <<>>, docs |-> openDocuments]
    ELSE IF existing = NoDoc
    THEN [threw |-> FALSE,
          sent |-> <<DidOpenMsg(uri, 1, text)>>,
          docs |-> [openDocuments EXCEPT ![uri] = [version |-> 1, text |-> text]]]
    ELSE [threw |-> FALSE,
          sent |-> <<DidChangeMsg(uri, existing.version + 1, text)>>,
          docs |-> [openDocuments EXCEPT
                      ![uri] = [version |-> existing.version + 1, text |-> text]]]

\* Mutant: a change is sent with the version the document already has.
ensureDocumentNoIncrement(uri, text) ==
    LET existing == openDocuments[uri] IN
    IF ~assertConnection
    THEN [threw |-> TRUE, sent |-> <<>>, docs |-> openDocuments]
    ELSE IF existing = NoDoc
    THEN [threw |-> FALSE,
          sent |-> <<DidOpenMsg(uri, 1, text)>>,
          docs |-> [openDocuments EXCEPT ![uri] = [version |-> 1, text |-> text]]]
    ELSE IF existing.text # text
    THEN [threw |-> FALSE,
          sent |-> <<DidChangeMsg(uri, existing.version, text)>>,
          docs |-> [openDocuments EXCEPT ![uri] = [version |-> existing.version, text |-> text]]]
    ELSE [threw |-> FALSE, sent |-> <<>>, docs |-> openDocuments]

\* Mutant: a change skips a version number.
ensureDocumentSkipsVersion(uri, text) ==
    LET existing == openDocuments[uri] IN
    IF ~assertConnection /\ (existing = NoDoc \/ existing.text # text)
    THEN [threw |-> TRUE, sent |-> <<>>, docs |-> openDocuments]
    ELSE IF existing = NoDoc
    THEN [threw |-> FALSE,
          sent |-> <<DidOpenMsg(uri, 1, text)>>,
          docs |-> [openDocuments EXCEPT ![uri] = [version |-> 1, text |-> text]]]
    ELSE IF existing.text # text
    THEN [threw |-> FALSE,
          sent |-> <<DidChangeMsg(uri, existing.version + 2, text)>>,
          docs |-> [openDocuments EXCEPT
                      ![uri] = [version |-> existing.version + 2, text |-> text]]]
    ELSE [threw |-> FALSE, sent |-> <<>>, docs |-> openDocuments]

\* Mutant: the DocumentState is stored or updated before assertConnection().
ensureDocumentStoresFirst(uri, text) ==
    LET existing == openDocuments[uri] IN
    IF existing = NoDoc THEN
        IF ~assertConnection
        THEN [threw |-> TRUE, sent |-> <<>>,
              docs |-> [openDocuments EXCEPT ![uri] = [version |-> 1, text |-> text]]]
        ELSE [threw |-> FALSE,
              sent |-> <<DidOpenMsg(uri, 1, text)>>,
              docs |-> [openDocuments EXCEPT ![uri] = [version |-> 1, text |-> text]]]
    ELSE IF existing.text # text THEN
        IF ~assertConnection
        THEN [threw |-> TRUE, sent |-> <<>>,
              docs |-> [openDocuments EXCEPT
                          ![uri] = [version |-> existing.version + 1, text |-> text]]]
        ELSE [threw |-> FALSE,
              sent |-> <<DidChangeMsg(uri, existing.version + 1, text)>>,
              docs |-> [openDocuments EXCEPT
                          ![uri] = [version |-> existing.version + 1, text |-> text]]]
    ELSE [threw |-> FALSE, sent |-> <<>>, docs |-> openDocuments]

\* ensureDocument(filePath) after the file has been read: the messages it
\* sends, the document states it leaves, and whether it threw.
ensureDocument(uri, text) ==
    LET existing == openDocuments[uri] IN
    IF existing = NoDoc THEN
        IF ~assertConnection
        THEN [threw |-> TRUE, sent |-> <<>>, docs |-> openDocuments]
        ELSE [threw |-> FALSE,
              sent |-> <<DidOpenMsg(uri, 1, text)>>,
              docs |-> [openDocuments EXCEPT ![uri] = [version |-> 1, text |-> text]]]
    ELSE IF existing.text # text THEN
        IF ~assertConnection
        THEN [threw |-> TRUE, sent |-> <<>>, docs |-> openDocuments]
        ELSE [threw |-> FALSE,
              sent |-> <<DidChangeMsg(uri, existing.version + 1, text)>>,
              docs |-> [openDocuments EXCEPT
                          ![uri] = [version |-> existing.version + 1, text |-> text]]]
    ELSE [threw |-> FALSE, sent |-> <<>>, docs |-> openDocuments]

\* `response ?? null`, `result ?? []`, normalizeLocations(result).
mapResult(kind, response) ==
    CASE kind = "getHover" -> IF response = "null" THEN "null" ELSE "hover"
      [] kind = "getDefinition" -> IF response = "null" THEN "[]" ELSE "locations"
      [] kind = "findReferences" -> IF response = "null" THEN "[]" ELSE "locations"
      [] kind = "documentSymbols" -> IF response = "null" THEN "[]" ELSE "symbols"
      [] OTHER -> "-"

EmptyReport(uri) == [uri |-> uri, diagnostics |-> <<>>]

\* ---------------------------------------------------------------- calls made by the owner
\* Call ids and file names are interchangeable, so the ids are used in
\* order and the first file a behaviour touches is the first of Docs.
\* getHover, getDefinition, findReferences and documentSymbols are the same
\* sequence (initialize, ensureDocument, sendRequest, map the result) with
\* another method: the callers of one behaviour use one of them, `operation`.
FirstIdle(cs, c) == \A b \in DOMAIN cs : b < c => cs[b].pc # "idle"
Made ==
    Cardinality({c \in Calls : calls[c].pc # "idle"})
      + Cardinality({s \in Shutdowns : shutdowns[s].pc # "idle"})
FirstFile(target) ==
    target \in Docs \ {"a.ts"} => \E b \in Calls : calls[b].target = "a.ts"

\* Mutant: the operation does not await initialize() and goes on while the
\* handshake is pending.
InvokeNoAwait(c, kind, target) ==
    /\ calls[c].pc = "idle"
    /\ FirstIdle(calls, c)
    /\ Made < MaxCalls
    /\ kind \in {"initialize", "getDiagnostics", operation}
    /\ target \in (IF kind = "initialize" THEN {NoTarget} ELSE Targets)
    /\ FirstFile(target)
    /\ initialize
    /\ LET call == [calls[c] EXCEPT !.kind = kind, !.target = target,
                                    !.late = (connection = "null" /\ spawnCount > 0)]
       IN
       calls' = [calls EXCEPT ![c] =
                    IF initializePromise = "rejected"
                    THEN afterInitialize(call, initializePromise, initError)
                    ELSE afterInitialize(call, "resolved", "none")]
    /\ UNCHANGED <<initError, shuttingDown, killCount, effects, docVars, diagVars,
                   envVars, shutdowns>>

\* A caller invokes initialize() or one of the five analysis operations.
\* Each begins with initialize(); when the promise is already settled the
\* call continues at once, otherwise it suspends on it.
Invoke(c, kind, target) ==
    /\ calls[c].pc = "idle"
    /\ FirstIdle(calls, c)
    /\ Made < MaxCalls
    /\ kind \in {"initialize", "getDiagnostics", operation}
    /\ target \in (IF kind = "initialize" THEN {NoTarget} ELSE Targets)
    /\ FirstFile(target)
    /\ initialize
    /\ LET call == [calls[c] EXCEPT !.kind = kind, !.target = target,
                                    !.late = (connection = "null" /\ spawnCount > 0)]
       IN
       calls' = [calls EXCEPT ![c] =
                    IF initializePromise \in {"resolved", "rejected"}
                    THEN afterInitialize(call, initializePromise, initError)
                    ELSE [call EXCEPT !.pc = "awaitInit"]]
    /\ UNCHANGED <<initError, shuttingDown, killCount, effects, docVars, diagVars,
                   envVars, shutdowns>>

\* fs.readFile observes the file.
ReadFile(c) ==
    /\ calls[c].pc = "reading"
    /\ calls' = [calls EXCEPT ![c] =
                    IF disk[calls[c].target] = Missing
                    THEN [@ EXCEPT !.pc = "failed", !.err = "ReadError"]
                    ELSE [@ EXCEPT !.pc = "readDone", !.text = disk[calls[c].target]]]
    /\ UNCHANGED <<clientVars, docVars, diagVars, envVars, wire, shutdowns>>

\* Mutant: the request is sent before the document is synchronized.
requestBeforeSync(c) ==
    /\ calls[c].pc = "readDone"
    /\ calls[c].kind \in RequestKinds
    /\ LET uri == calls[c].target
           e == ensureDocument(uri, calls[c].text)
       IN IF e.threw \/ ~assertConnection
          THEN /\ calls' = SetCall(calls, c, "failed", "NoConnection")
               /\ openDocuments' = e.docs
               /\ wire' = wire \o e.sent
          ELSE /\ calls' = SetCall(calls, c, "awaitResp", "none")
               /\ openDocuments' = e.docs
               /\ wire' = (wire \o <<RequestMsg(c, calls[c].kind, uri)>>) \o e.sent
    /\ UNCHANGED <<clientVars, diagVars, envVars, shutdowns>>

\* getHover / getDefinition / findReferences / documentSymbols resumed by the
\* completed read: synchronize the document, then send the request.
request(c) ==
    /\ calls[c].pc = "readDone"
    /\ calls[c].kind \in RequestKinds
    /\ LET uri == calls[c].target
           e == ensureDocument(uri, calls[c].text)
       IN IF e.threw \/ ~assertConnection
          THEN /\ calls' = SetCall(calls, c, "failed", "NoConnection")
               /\ openDocuments' = e.docs
               /\ wire' = wire \o e.sent
          ELSE /\ calls' = SetCall(calls, c, "awaitResp", "none")
               /\ openDocuments' = e.docs
               /\ wire' = (wire \o e.sent) \o <<RequestMsg(c, calls[c].kind, uri)>>
    /\ UNCHANGED <<clientVars, diagVars, envVars, shutdowns>>

\* Mutant: getDiagnostics never looks into the cache and always waits.
getDiagnosticsIgnoresCache(c) ==
    /\ calls[c].pc = "readDone"
    /\ calls[c].kind = "getDiagnostics"
    /\ LET uri == calls[c].target
           e == ensureDocument(uri, calls[c].text)
       IN /\ openDocuments' = e.docs
          /\ wire' = wire \o e.sent
          /\ IF e.threw
             THEN /\ calls' = SetCall(calls, c, "failed", "NoConnection")
                  /\ UNCHANGED <<listeners, timers>>
             ELSE /\ calls' = [calls EXCEPT ![c].pc = "waitDiag"]
                  /\ timers' = timers \cup {c}
                  /\ listeners' = [listeners EXCEPT ![uri] = @ \cup {c}]
    /\ UNCHANGED <<clientVars, diagnostics, publishes, received, envVars, shutdowns>>

\* Mutant: getDiagnostics arms its timer but registers no handler.
getDiagnosticsNoHandler(c) ==
    /\ calls[c].pc = "readDone"
    /\ calls[c].kind = "getDiagnostics"
    /\ LET uri == calls[c].target
           e == ensureDocument(uri, calls[c].text)
           cached == diagnostics[uri]
       IN /\ openDocuments' = e.docs
          /\ wire' = wire \o e.sent
          /\ IF e.threw
             THEN /\ calls' = SetCall(calls, c, "failed", "NoConnection")
                  /\ UNCHANGED <<listeners, timers>>
             ELSE IF cached # NoReport
             THEN /\ calls' = [calls EXCEPT ![c].pc = "done", ![c].report = cached]
                  /\ UNCHANGED <<listeners, timers>>
             ELSE /\ calls' = [calls EXCEPT ![c].pc = "waitDiag"]
                  /\ timers' = timers \cup {c}
                  /\ UNCHANGED listeners
    /\ UNCHANGED <<clientVars, diagnostics, publishes, received, envVars, shutdowns>>

\* getDiagnostics resumed by the completed read: synchronize the document,
\* return the cached report or register a one-shot handler and a timer.
getDiagnostics(c) ==
    /\ calls[c].pc = "readDone"
    /\ calls[c].kind = "getDiagnostics"
    /\ LET uri == calls[c].target
           e == ensureDocument(uri, calls[c].text)
           cached == diagnostics[uri]
       IN /\ openDocuments' = e.docs
          /\ wire' = wire \o e.sent
          /\ IF e.threw
             THEN /\ calls' = SetCall(calls, c, "failed", "NoConnection")
                  /\ UNCHANGED <<listeners, timers>>
             ELSE IF cached # NoReport
             THEN /\ calls' = [calls EXCEPT ![c].pc = "done", ![c].report = cached]
                  /\ UNCHANGED <<listeners, timers>>
             ELSE /\ calls' = [calls EXCEPT ![c].pc = "waitDiag"]
                  /\ timers' = timers \cup {c}
                  /\ listeners' = [listeners EXCEPT ![uri] = @ \cup {c}]
    /\ UNCHANGED <<clientVars, diagnostics, publishes, received, envVars, shutdowns>>

\* Mutant: the timer rejects the call instead of resolving it.
DiagnosticsTimeoutRejects(c) ==
    /\ c \in timers
    /\ timers' = timers \ {c}
    /\ listeners' = [listeners EXCEPT ![calls[c].target] = @ \ {c}]
    /\ calls' = IF calls[c].pc = "waitDiag"
                THEN SetCall(calls, c, "failed", "DiagnosticsTimeout")
                ELSE calls
    /\ UNCHANGED <<clientVars, docVars, diagnostics, publishes, received, envVars,
                   wire, shutdowns>>

\* Mutant: the timer resolves the call but leaves the handler registered.
DiagnosticsTimeoutKeepsHandler(c) ==
    /\ c \in timers
    /\ timers' = timers \ {c}
    /\ calls' = IF calls[c].pc = "waitDiag"
                THEN [calls EXCEPT ![c].pc = "done",
                                   ![c].report = EmptyReport(calls[c].target),
                                   ![c].resolves = @ + 1]
                ELSE [calls EXCEPT ![c].resolves = @ + 1]
    /\ UNCHANGED <<clientVars, docVars, diagnostics, listeners, publishes, received,
                   envVars, wire, shutdowns>>

\* The getDiagnostics timer fires: deregister the handler, resolve with the
\* empty report (resolving a settled promise changes nothing).
DiagnosticsTimeout(c) ==
    /\ c \in timers
    /\ timers' = timers \ {c}
    /\ listeners' = [listeners EXCEPT ![calls[c].target] = @ \ {c}]
    /\ calls' = IF calls[c].pc = "waitDiag"
                THEN [calls EXCEPT ![c].pc = "done",
                                   ![c].report = EmptyReport(calls[c].target),
                                   ![c].resolves = @ + 1]
                ELSE [calls EXCEPT ![c].resolves = @ + 1]
    /\ UNCHANGED <<clientVars, docVars, diagnostics, publishes, received, envVars,
                   wire, shutdowns>>

\* The events of the environment so far: changes of the disk, pushed
\* notifications, the exit of the subprocess.
Events == edits + publishes + (IF proc = "exited" THEN 1 ELSE 0)

\* Mutant: the emit reaches only one of the handlers registered for the uri.
handleDiagnosticsFirstOnly(uri, diags) ==
    LET params == [uri |-> uri, diagnostics |-> diags]
        first == IF listeners[uri] = {} THEN {}
                 ELSE {CHOOSE c \in listeners[uri] : \A b \in listeners[uri] : c <= b}
    IN
    /\ diagnostics' = [diagnostics EXCEPT ![uri] = params]
    /\ timers' = timers \ first
    /\ listeners' = [listeners EXCEPT ![uri] = @ \ first]
    /\ calls' = [c \in Calls |->
                    IF c \in first
                    THEN [calls[c] EXCEPT !.pc = "done", !.report = params,
                                          !.resolves = @ + 1]
                    ELSE calls[c]]

\* Mutant: a new report is merged into the cached one.
handleDiagnosticsMerges(uri, diags) ==
    LET params == [uri |-> uri, diagnostics |-> diags]
        merged == [uri |-> uri, diagnostics |-> diagnostics[uri].diagnostics \o diags]
    IN
    /\ diagnostics' = [diagnostics EXCEPT ![uri] = merged]
    /\ timers' = timers \ listeners[uri]
    /\ listeners' = [listeners EXCEPT ![uri] = {}]
    /\ calls' = [c \in Calls |->
                    IF c \in listeners[uri] /\ calls[c].pc = "waitDiag"
                    THEN [calls[c] EXCEPT !.pc = "done", !.report = params,
                                          !.resolves = @ + 1]
                    ELSE calls[c]]

\* handleDiagnostics(params) for a pushed publishDiagnostics notification:
\* cache the report, emit it to the one-shot handlers of that uri; each
\* handler clears its timer and resolves its call.
handleDiagnostics(uri, diags) ==
    LET params == [uri |-> uri, diagnostics |-> diags] IN
    /\ diagnostics' = [diagnostics EXCEPT ![uri] = params]
    /\ timers' = timers \ listeners[uri]
    /\ listeners' = [listeners EXCEPT ![uri] = {}]
    /\ calls' = [c \in Calls |->
                    IF c \in listeners[uri] /\ calls[c].pc = "waitDiag"
                    THEN [calls[c] EXCEPT !.pc = "done", !.report = params,
                                          !.resolves = @ + 1]
                    ELSE IF c \in listeners[uri]
                    THEN [calls[c] EXCEPT !.resolves = @ + 1]
                    ELSE calls[c]]

PublishDiagnostics(uri, diags) ==
    /\ proc = "running"
    /\ connection = "open"
    /\ publishes < MaxPublish
    /\ Events < MaxEvents
    /\ publishes' = publishes + 1
    /\ received' = Append(received, [uri |-> uri, diagnostics |-> diags])
    /\ handleDiagnostics(uri, diags)
    /\ UNCHANGED <<clientVars, docVars, envVars, wire, shutdowns>>

\* Mutant: an error answer makes the client give up its connection and fail
\* the other pending requests.
RespondErrorClosesConnection(c, response) ==
    /\ calls[c].pc = "awaitResp"
    /\ IF response = "error" THEN proc \in {"running", "exited"} ELSE proc = "running"
    /\ IF response = "error"
       THEN /\ calls' = [b \in Calls |->
                           IF calls[b].pc = "awaitResp"
                           THEN [calls[b] EXCEPT !.pc = "failed", !.err = "RemoteError"]
                           ELSE calls[b]]
            /\ connection' = "null"
       ELSE /\ calls' = [calls EXCEPT ![c] =
                           [@ EXCEPT !.pc = "done",
                                     !.result = mapResult(calls[c].kind, response)]]
            /\ UNCHANGED connection
    /\ UNCHANGED <<child, initializePromise, initError, shuttingDown, timeoutHandle,
                   initRequest, proc, spawnCount, killCount, effects, log, docVars,
                   diagVars, envVars, wire, shutdowns>>

\* The server answers an analysis request, with a result or with an error;
\* a request to a subprocess that has exited can fail as well.
Respond(c, response) ==
    /\ calls[c].pc = "awaitResp"
    /\ IF response = "error" THEN proc \in {"running", "exited"} ELSE proc = "running"
    /\ calls' = [calls EXCEPT ![c] =
                    IF response = "error"
                    THEN [@ EXCEPT !.pc = "failed", !.err = "RemoteError"]
                    ELSE [@ EXCEPT !.pc = "done",
                                   !.result = mapResult(calls[c].kind, response)]]
    /\ UNCHANGED <<clientVars, docVars, diagVars, envVars, wire, shutdowns>>

\* The environment changes a file on disk (or makes it unreadable).
Edit(uri, content) ==
    /\ edits < MaxEdits
    /\ Events < MaxEvents
    /\ content # disk[uri]
    /\ disk' = [disk EXCEPT ![uri] = content]
    /\ edits' = edits + 1
    /\ UNCHANGED <<operation, clientVars, docVars, diagVars, wire, calls, shutdowns>>

\* ---------------------------------------------------------------- handshake
\* Mutant: the initialized notification is sent whenever the initialize
\* response arrives, also when the race was lost.
settleRaceLateInitialized(outcome) ==
    IF initializePromise # "pending"
    THEN /\ wire' = IF outcome = "response" THEN Append(wire, InitializedMsg) ELSE wire
         /\ UNCHANGED <<initializePromise, initError, calls>>
    ELSE IF outcome = "response"
    THEN /\ initializePromise' = "resolved"
         /\ wire' = Append(wire, InitializedMsg)
         /\ calls' = settleWaiters(calls, "resolved", "none")
         /\ UNCHANGED initError
    ELSE /\ initializePromise' = "rejected"
         /\ initError' = outcome
         /\ calls' = settleWaiters(calls, "rejected", outcome)
         /\ UNCHANGED wire

\* The race of start() settles: Promise.race([initializeResultPromise,
\* timeoutPromise, spawnErrorPromise]) and the code after it.  On a response
\* the timer is cleared, the initialized notification is sent and the
\* promise resolves; on a rejection the await throws and start() ends there.
\* A late outcome of an already settled race changes nothing.
settleRace(outcome) ==
    IF initializePromise # "pending"
    THEN UNCHANGED <<initializePromise, initError, wire, calls>>
    ELSE IF outcome = "response"
    THEN /\ initializePromise' = "resolved"
         /\ wire' = Append(wire, InitializedMsg)
         /\ calls' = settleWaiters(calls, "resolved", "none")
         /\ UNCHANGED initError
    ELSE /\ initializePromise' = "rejected"
         /\ initError' = outcome
         /\ calls' = settleWaiters(calls, "rejected", outcome)
         /\ UNCHANGED wire

\* The timer of start() after the race has been decided by `outcome`:
\* clearTimeout is reached only when the await returns a result.
timerAfterRace(outcome) ==
    IF outcome = "InitTimeout" THEN "fired"
    ELSE IF outcome = "response" /\ initializePromise = "pending" THEN "cleared"
    ELSE timeoutHandle

\* The server answers the initialize request.
InitializeResponse ==
    /\ initRequest = "pending"
    /\ proc = "running"
    /\ initRequest' = "answered"
    /\ timeoutHandle' = timerAfterRace("response")
    /\ settleRace("response")
    /\ log' = IF initializePromise = "pending" THEN Append(log, InitializedLog) ELSE log
    /\ UNCHANGED <<child, connection, shuttingDown, proc, spawnCount, killCount,
                   effects, docVars, diagVars, envVars, shutdowns>>

\* The initialize request fails: the server answers with an error, or the
\* request cannot be written to a subprocess that never started.
InitializeRequestFails ==
    /\ initRequest = "pending"
    /\ proc \in {"running", "spawnFailed", "errored", "exited"}
    /\ initRequest' = "rejected"
    /\ timeoutHandle' = timerAfterRace("InitRequestFailed")
    /\ settleRace("InitRequestFailed")
    /\ UNCHANGED <<child, connection, shuttingDown, proc, spawnCount, killCount,
                   effects, log, docVars, diagVars, envVars, shutdowns>>

\* The initialization timer fires.
InitializeTimeout ==
    /\ timeoutHandle = "pending"
    /\ timeoutHandle' = timerAfterRace("InitTimeout")
    /\ settleRace("InitTimeout")
    /\ UNCHANGED <<child, connection, shuttingDown, initRequest, proc, spawnCount,
                   killCount, effects, log, docVars, diagVars, envVars, shutdowns>>

\* The child emits "error": the spawn failed.
SpawnError ==
    /\ proc = "spawnFailed"
    /\ proc' = "errored"
    /\ timeoutHandle' = timerAfterRace("SpawnError")
    /\ settleRace("SpawnError")
    /\ log' = Append(log, SpawnFailedLog)
    /\ UNCHANGED <<child, connection, shuttingDown, initRequest, spawnCount,
                   killCount, effects, docVars, diagVars, envVars, shutdowns>>

\* Mutant: the exit handler reports every exit.
ChildExitAlwaysReported ==
    /\ proc \in {"running", "killed", "errored"}
    /\ Events < MaxEvents
    /\ proc' = "exited"
    /\ log' = Append(log, UnexpectedExitLog)
    /\ UNCHANGED <<child, connection, initializePromise, initError, shuttingDown,
                   timeoutHandle, initRequest, spawnCount, killCount, effects, wire,
                   docVars, diagVars, envVars, calls, shutdowns>>

\* The child emits "exit": the handler of start() reports the exit unless
\* shuttingDown is set.  A subprocess exits on its own, after a kill, or
\* possibly after a failed spawn.
ChildExit ==
    /\ proc \in {"running", "killed", "errored"}
    /\ Events < MaxEvents
    /\ proc' = "exited"
    /\ log' = IF shuttingDown THEN log ELSE Append(log, UnexpectedExitLog)
    /\ UNCHANGED <<child, connection, initializePromise, initError, shuttingDown,
                   timeoutHandle, initRequest, spawnCount, killCount, effects, wire,
                   docVars, diagVars, envVars, calls, shutdowns>>

\* ---------------------------------------------------------------- shutdown
\* Mutant: shutdown() without the test of connection and child.
shutdownNoGuard(s) ==
    /\ shutdowns[s].pc = "idle"
    /\ FirstIdle(shutdowns, s)
    /\ Made < MaxCalls
    /\ shutdowns' = [shutdowns EXCEPT ![s].pc = "awaitShutdown"]
    /\ shuttingDown' = TRUE
    /\ wire' = Append(wire, ShutdownMsg)
    /\ effects' = Append(effects, "shutdown")
    /\ UNCHANGED <<child, connection, initializePromise, initError, timeoutHandle,
                   initRequest, proc, spawnCount, killCount, log, docVars, diagVars,
                   envVars, calls>>

\* shutdown() up to its first await: a no-op without connection or child,
\* otherwise the shutdown request is sent.
shutdown(s) ==
    /\ shutdowns[s].pc = "idle"
    /\ FirstIdle(shutdowns, s)
    /\ Made < MaxCalls
    /\ IF connection = "null" \/ child = "null"
       THEN /\ shutdowns' = [shutdowns EXCEPT ![s].pc = "done"]
            /\ UNCHANGED <<shuttingDown, wire, effects>>
       ELSE /\ shutdowns' = [shutdowns EXCEPT ![s].pc = "awaitShutdown"]
            /\ shuttingDown' = TRUE
            /\ wire' = Append(wire, ShutdownMsg)
            /\ effects' = Append(effects, "shutdown")
    /\ UNCHANGED <<child, connection, initializePromise, initError, timeoutHandle,
                   initRequest, proc, spawnCount, killCount, log, docVars, diagVars,
                   envVars, calls>>

\* Mutant: dispose() leaves the pending analysis requests pending.
disposedLeavesRequests(cs) ==
    [b \in Calls |->
        IF cs[b].pc = "awaitInit" /\ initRequest = "pending"
        THEN afterInitialize(cs[b], "rejected", "InitRequestFailed")
        ELSE cs[b]]

\* connection.dispose() rejects every pending request.  The calls waiting
\* for a response fail; start(), if still waiting for the initialize
\* response, throws, and so do the calls waiting for it.
disposed(cs) ==
    [b \in Calls |->
        CASE cs[b].pc = "awaitResp" ->
               [cs[b] EXCEPT !.pc = "failed", !.err = "ConnectionDisposed"]
          [] cs[b].pc = "awaitInit" /\ initRequest = "pending" ->
               afterInitialize(cs[b], "rejected", "InitRequestFailed")
          [] OTHER -> cs[b]]

\* Another shutdown() whose request is rejected by the dispose lands in its
\* catch and goes on to `this.connection.dispose()` with this.connection
\* already null.
disposedShutdowns(ss, s) ==
    [t \in Shutdowns |->
        IF t = s THEN [ss[t] EXCEPT !.pc = "done"]
        ELSE IF ss[t].pc = "awaitShutdown"
             THEN [pc |-> "failed", err |-> "TypeError"]
             ELSE ss[t]]

\* The log after shutdown s has gone from its try block to the kill: its own
\* catch logs when its request or its exit notification failed, and so does
\* the catch of every other shutdown() whose request the dispose rejects.
shutdownLog(entries, s, outcome) ==
    LET own == IF outcome = "ok" THEN <<>> ELSE <<ShutdownFailedLog>>
        others == Cardinality({t \in Shutdowns \ {s} : shutdowns[t].pc = "awaitShutdown"})
    IN entries \o own \o [i \in 1..others |-> ShutdownFailedLog]

\* Mutant: a shutdown() whose request fails logs the failure and returns,
\* leaving the connection and the child as they are.
ShutdownResponseGivesUp(s, outcome) ==
    /\ shutdowns[s].pc = "awaitShutdown"
    /\ outcome = "ok" => proc = "running"
    /\ outcome = "error" => proc \in {"running", "spawnFailed", "errored", "exited"}
    /\ IF connection = "null" \/ outcome = "error"
       THEN /\ shutdowns' = [shutdowns EXCEPT ![s].pc = "done"]
            /\ log' = IF outcome = "ok" THEN log ELSE Append(log, ShutdownFailedLog)
            /\ UNCHANGED <<child, connection, initializePromise, initError,
                           initRequest, proc, killCount, wire, effects, calls>>
       ELSE /\ wire' = Append(wire, ExitMsg)
            /\ effects' = effects \o <<"exit", "dispose", "kill">>
            /\ log' = shutdownLog(log, s, outcome)
            /\ calls' = disposed(calls)
            /\ shutdowns' = disposedShutdowns(shutdowns, s)
            /\ initRequest' = IF initRequest = "pending" THEN "rejected" ELSE initRequest
            /\ initializePromise' = IF initializePromise = "pending"
                                    THEN "rejected" ELSE initializePromise
            /\ initError' = IF initializePromise = "pending"
                            THEN "InitRequestFailed" ELSE initError
            /\ connection' = "null"
            /\ killCount' = killCount + 1
            /\ proc' = IF proc \in {"running", "silent"} THEN "killed" ELSE proc
            /\ child' = "null"
    /\ UNCHANGED <<shuttingDown, timeoutHandle, spawnCount, docVars, diagVars, envVars>>

\* shutdown() resumed by the outcome of its shutdown request: on a response
\* the exit notification is sent; on a failure the catch logs it.  Then the
\* connection is disposed and the child killed.
ShutdownResponse(s, outcome) ==
    /\ shutdowns[s].pc = "awaitShutdown"
    /\ outcome = "ok" => proc = "running"
    /\ outcome = "error" => proc \in {"running", "spawnFailed", "errored", "exited"}
    /\ IF connection = "null"
       THEN /\ shutdowns' = [shutdowns EXCEPT ![s] = [pc |-> "failed", err |-> "TypeError"]]
            /\ log' = IF outcome = "ok" THEN log ELSE Append(log, ShutdownFailedLog)
            /\ UNCHANGED <<child, connection, initializePromise, initError,
                           initRequest, proc, killCount, wire, effects, calls>>
       ELSE /\ wire' = IF outcome = "ok" THEN Append(wire, ExitMsg) ELSE wire
            /\ effects' = effects \o (IF outcome = "ok" THEN <<"exit">> ELSE <<>>)
                                  \o <<"dispose", "kill">>
            /\ log' = shutdownLog(log, s, outcome)
            /\ calls' = disposed(calls)
            /\ shutdowns' = disposedShutdowns(shutdowns, s)
            /\ initRequest' = IF initRequest = "pending" THEN "rejected" ELSE initRequest
            /\ initializePromise' = IF initializePromise = "pending"
                                    THEN "rejected" ELSE initializePromise
            /\ initError' = IF initializePromise = "pending"
                            THEN "InitRequestFailed" ELSE initError
            /\ connection' = "null"
            /\ killCount' = killCount + 1
            /\ proc' = IF proc \in {"running", "silent"} THEN "killed" ELSE proc
            /\ child' = "null"
    /\ UNCHANGED <<shuttingDown, timeoutHandle, spawnCount, docVars, diagVars, envVars>>

\* ---------------------------------------------------------------- normalizeLocations
\* isLocationLink(value): an object with a targetUri that is a string.
isLocationLink(value) ==
    /\ "targetUri" \in DOMAIN value
    /\ value.targetUri \in Uris

\* Mutant: a link is always replaced by its full target range.
normalizeLocationsTargetRange(input) ==
    IF input.kind = "null" THEN <<>>
    ELSE IF input.kind = "array"
    THEN [i \in 1..Len(input.value) |->
            LET entry == input.value[i] IN
            IF isLocationLink(entry)
            THEN [uri |-> entry.targetUri, range |-> entry.targetRange]
            ELSE entry]
    ELSE <<input.value>>

\* normalizeLocations(input): `!input` gives [], an array is mapped entry by
\* entry (`targetSelectionRange ?? targetRange` for a link), anything else is
\* wrapped.
normalizeLocations(input) ==
    IF input.kind = "null" THEN <<>>
    ELSE IF input.kind = "array"
    THEN [i \in 1..Len(input.value) |->
            LET entry == input.value[i] IN
            IF isLocationLink(entry)
            THEN [uri |-> entry.targetUri,
                  range |-> IF "targetSelectionRange" \in DOMAIN entry
                            THEN entry.targetSelectionRange
                            ELSE entry.targetRange]
            ELSE entry]
    ELSE <<input.value>>

\* getDefinition returns normalizeLocations(result) for the answer it got.
Normalize ==
    /\ ~norm.returned
    /\ norm' = [norm EXCEPT !.returned = TRUE, !.output = normalizeLocations(norm.input)]
    /\ UNCHANGED <<clientVars, docVars, diagVars, envVars, wire, calls, shutdowns,
                   pathCall, tools, cli>>

\* ---------------------------------------------------------------- toAbsolutePath
\* path.resolve from an absolute, normalized base: ".." drops the last name
\* (and stays at "/"), "." changes nothing, a name is appended.
RECURSIVE pathResolve(_, _)
pathResolve(base, segments) ==
    IF segments = <<>> THEN base
    ELSE LET seg == Head(segments)
             next == IF seg = Up
                     THEN (IF base = <<>> THEN <<>> ELSE SubSeq(base, 1, Len(base) - 1))
                     ELSE IF seg = Dot THEN base
                     ELSE Append(base, seg)
         IN pathResolve(next, Tail(segments))

\* path.relative(from, to) for two absolute, normalized paths: one ".." for
\* every name of `from` past the common prefix, then the rest of `to`.
pathRelative(from, to) ==
    LET shorter == IF Len(from) < Len(to) THEN Len(from) ELSE Len(to)
        common == CHOOSE n \in 0..shorter :
                     /\ \A i \in 1..n : from[i] = to[i]
                     /\ n = shorter \/ from[n + 1] # to[n + 1]
    IN [i \in 1..(Len(from) - common) |-> Up] \o SubSeq(to, common + 1, Len(to))

\* The string of a relative path: its segments joined by "/".
RECURSIVE pathString(_)
pathString(segments) ==
    IF segments = <<>> THEN <<>>
    ELSE IF Len(segments) = 1 THEN segments[1]
    ELSE segments[1] \o <<"/">> \o pathString(Tail(segments))

\* String.prototype.startsWith.
startsWith(string, prefix) ==
    /\ Len(string) >= Len(prefix)
    /\ SubSeq(string, 1, Len(prefix)) = prefix

\* toAbsolutePath(workspaceRoot, inputPath) of util/path.ts, on a POSIX
\* system (path.relative never gives an absolute path there).
toAbsolutePathOf(workspaceRoot, inputPath) ==
    LET normalizedRoot == pathResolve(<<>>, workspaceRoot)
        candidate == IF inputPath.absolute
                     THEN pathResolve(<<>>, inputPath.segments)
                     ELSE pathResolve(normalizedRoot, inputPath.segments)
        relative == pathRelative(normalizedRoot, candidate)
    IN IF startsWith(pathString(relative), <<".", ".">>)
       THEN [threw |-> TRUE, path |-> <<>>]
       ELSE [threw |-> FALSE, path |-> candidate]

\* One call of toAbsolutePath with the workspace root.
ResolvePath ==
    /\ ~pathCall.returned
    /\ pathCall' = [pathCall EXCEPT
                      !.returned = TRUE,
                      !.result = toAbsolutePathOf(WorkspaceRoot, pathCall.input)]
    /\ UNCHANGED <<clientVars, docVars, diagVars, envVars, wire, calls, shutdowns,
                   norm, tools, cli>>

\* ---------------------------------------------------------------- specification
\* The actions are written for the client object; the specification of the
\* client alone leaves everything outside it as it is.
Next ==
    \/ \E c \in Calls, kind \in Kinds, target \in Targets \cup {NoTarget} :
          Invoke(c, kind, target) /\ UNCHANGED hostVars
    \/ \E c \in Calls : ReadFile(c) /\ UNCHANGED hostVars
    \/ \E c \in Calls : request(c) /\ UNCHANGED hostVars
    \/ \E c \in Calls : getDiagnostics(c) /\ UNCHANGED hostVars
    \/ \E c \in Calls : DiagnosticsTimeout(c) /\ UNCHANGED hostVars
    \/ \E uri \in Docs, diags \in DiagLists :
          PublishDiagnostics(uri, diags) /\ UNCHANGED hostVars
    \/ \E c \in Calls, response \in Responses \cup {"error"} :
          Respond(c, response) /\ UNCHANGED hostVars
    \/ \E uri \in Docs, content \in Contents \cup {Missing} :
          Edit(uri, content) /\ UNCHANGED hostVars
    \/ InitializeResponse /\ UNCHANGED hostVars
    \/ InitializeRequestFails /\ UNCHANGED hostVars
    \/ InitializeTimeout /\ UNCHANGED hostVars
    \/ SpawnError /\ UNCHANGED hostVars
    \/ ChildExit /\ UNCHANGED hostVars
    \/ \E s \in Shutdowns : shutdown(s) /\ UNCHANGED hostVars
    \/ \E s \in Shutdowns, outcome \in {"ok", "error"} :
          ShutdownResponse(s, outcome) /\ UNCHANGED hostVars

Spec == Init /\ [][Next]_vars

\* The normalization of one answer to getDefinition, for every answer up to
\* MaxLen entries.
InitNormalize ==
    /\ ClientInit
    /\ operation = "getDefinition"
    /\ norm \in {[input |-> a, returned |-> FALSE, output |-> <<>>] : a \in Answers}
    /\ pathCall = NoPathCall
    /\ tools = [c \in Calls |-> NoTool]
    /\ cli = NoCli

NextNormalize == Normalize

SpecNormalize == InitNormalize /\ [][NextNormalize]_vars

\* One call of toAbsolutePath, for every input path of up to MaxSegments
\* segments.
InitPath ==
    /\ ClientInit
    /\ operation = "getHover"
    /\ norm = NoNorm
    /\ pathCall \in {[input |-> p, returned |-> FALSE, result |-> NoResult] :
                       p \in InputPaths}
    /\ tools = [c \in Calls |-> NoTool]
    /\ cli = NoCli

NextPath == ResolvePath

SpecPath == InitPath /\ [][NextPath]_vars

\* ---------------------------------------------------------------- server.ts and cli.ts
\* The process of cli.ts: main() initializes the client, connects the MCP
\* server and waits for the transport to close; the tool handlers of
\* server.ts are the only callers of the analysis operations, and
\* shutdown(exitCode) of cli.ts the only caller of lspClient.shutdown().  The
\* environment sends no signals and the transport reports no error.
\*
\* A continuation of cli.ts that a settled promise has made runnable runs in
\* the same turn of the event loop as the step that settled it: while one is
\* runnable it is the only step that can be taken.
MainRunnable == cli.pc = "awaitInit" /\ initializePromise \in {"resolved", "rejected"}
ExitRunnable == cli.pc = "shuttingDown" /\ shutdowns[cli.sid].pc \in {"done", "failed"}
Ready == cli.pc \notin {"none", "exited"} /\ ~MainRunnable /\ ~ExitRunnable

\* main() up to `await lspClient.initialize()`.
Main ==
    /\ cli.pc = "start"
    /\ initialize
    /\ cli' = [cli EXCEPT !.pc = "awaitInit"]
    /\ UNCHANGED <<initError, shuttingDown, killCount, effects, docVars, diagVars,
                   envVars, calls, shutdowns, norm, pathCall, tools>>

\* shutdown(exitCode) of cli.ts up to `await Promise.allSettled([...])`:
\* lspClient.shutdown() and server.close() are called.
cliShutdown(exitCode) ==
    /\ \E s \in Shutdowns :
          /\ shutdown(s)
          /\ cli' = [cli EXCEPT !.pc = "shuttingDown", !.exitCode = exitCode, !.sid = s]
    /\ UNCHANGED <<norm, pathCall, tools>>

\* main() resumed by the outcome of initialize(): on success it calls
\* server.connect(transport) and waits for the transport to close; a
\* rejection leaves main() and its catch handler calls shutdown(1).
MainResumes ==
    /\ MainRunnable
    /\ IF initializePromise = "resolved"
       THEN /\ cli' = [cli EXCEPT !.pc = "listening", !.connected = TRUE]
            /\ UNCHANGED <<clientVars, docVars, diagVars, envVars, wire, calls,
                           shutdowns, norm, pathCall, tools>>
       ELSE cliShutdown(1)

\* transport.onclose: waitForClose resolves and main() calls shutdown(0).
TransportClose ==
    /\ cli.pc = "listening"
    /\ cliShutdown(0)

\* shutdown(exitCode) of cli.ts resumed when lspClient.shutdown() has settled
\* either way: process.exit(exitCode).
CliExit ==
    /\ ExitRunnable
    /\ cli' = [cli EXCEPT !.pc = "exited"]
    /\ UNCHANGED <<clientVars, docVars, diagVars, envVars, wire, calls, shutdowns,
                   norm, pathCall, tools>>

\* A tools/call request reaches the handler registered for `tool`.  The
\* hover handler calls toAbsolutePath(root, filePath), which throws for a
\* path outside the root, and then lspClient.getHover; the other four
\* handlers call their client method with the filePath they were given.
CallTool(c, tool, filePath) ==
    /\ cli.pc = "listening"
    /\ tool \in ToolNames
    /\ filePath \in Targets
    /\ tools' = [tools EXCEPT ![c] = [tool |-> tool, filePath |-> filePath]]
    /\ IF tool = "typescript-hover" /\ toAbsolutePath(filePath).threw
       THEN /\ calls[c].pc = "idle"
            /\ FirstIdle(calls, c)
            /\ Made < MaxCalls
            /\ ClientMethod(tool) \in {"getDiagnostics", operation}
            /\ calls' = [calls EXCEPT ![c] = [@ EXCEPT !.pc = "failed", !.target = filePath,
                                                       !.err = "PathEscape"]]
            /\ UNCHANGED <<clientVars, docVars, diagVars, envVars, wire, shutdowns>>
       ELSE Invoke(c, ClientMethod(tool), filePath)
    /\ UNCHANGED <<norm, pathCall, cli>>

InitServer ==
    /\ ClientInit
    /\ norm = NoNorm
    /\ pathCall = NoPathCall
    /\ tools = [c \in Calls |-> NoTool]
    /\ cli = [NoCli EXCEPT !.pc = "start"]

NextServer ==
    \/ Main
    \/ MainResumes
    \/ CliExit
    \/ Ready /\ TransportClose
    \/ Ready /\ \E c \in Calls, tool \in ToolNames, filePath \in Targets :
                   CallTool(c, tool, filePath)
    \/ Ready /\ \E c \in Calls : ReadFile(c) /\ UNCHANGED hostVars
    \/ Ready /\ \E c \in Calls : request(c) /\ UNCHANGED hostVars
    \/ Ready /\ \E c \in Calls : getDiagnostics(c) /\ UNCHANGED hostVars
    \/ Ready /\ \E c \in Calls : DiagnosticsTimeout(c) /\ UNCHANGED hostVars
    \/ Ready /\ \E uri \in Docs, diags \in DiagLists :
                   PublishDiagnostics(uri, diags) /\ UNCHANGED hostVars
    \/ Ready /\ \E c \in Calls, response \in Responses \cup {"error"} :
                   Respond(c, response) /\ UNCHANGED hostVars
    \/ Ready /\ \E uri \in Docs, content \in Contents \cup {Missing} :
                   Edit(uri, content) /\ UNCHANGED hostVars
    \/ Ready /\ InitializeResponse /\ UNCHANGED hostVars
    \/ Ready /\ InitializeRequestFails /\ UNCHANGED hostVars
    \/ Ready /\ InitializeTimeout /\ UNCHANGED hostVars
    \/ Ready /\ SpawnError /\ UNCHANGED hostVars
    \/ Ready /\ ChildExit /\ UNCHANGED hostVars
    \/ Ready /\ \E s \in Shutdowns, outcome \in {"ok", "error"} :
                   ShutdownResponse(s, outcome) /\ UNCHANGED hostVars

SpecServer == InitServer /\ [][NextServer]_vars

\* Every step that can be taken is taken at some time: timers fire, the
\* subprocess answers what it is going to answer, continuations run.
FairSpecServer == SpecServer /\ WF_vars(NextServer)

\* ---------------------------------------------------------------- signals
\* The same process when the environment also sends SIGINT or SIGTERM, once.
\* The handler calls shutdown(0) of cli.ts, which calls lspClient.shutdown()
\* and server.close().  Closing a connected MCP server closes its transport,
\* and the transport reports that through transport.onclose (MCP SDK): the
\* main() that waits on waitForClose resumes in the same turn and calls
\* shutdown(0) itself.
\*
\* main() calls shutdown() at most once more while it is in "awaitInit" or
\* "listening": the calls of one behaviour being bounded, one is kept for it.
Owed == IF cli.pc \in {"awaitInit", "listening"} THEN 1 ELSE 0
Reserve == Made + Owed < MaxCalls

CloseRunnable == cli.pc = "listening" /\ cli.closed
SignalExitRunnable ==
    /\ cli.pc \notin {"none", "exited"}
    /\ cli.sigSid # 0
    /\ shutdowns[cli.sigSid].pc \in {"done", "failed"}
ReadySignals == Ready /\ ~CloseRunnable /\ ~SignalExitRunnable

\* process.on("SIGINT" / "SIGTERM"): shutdown(0) up to its await.
Signal ==
    /\ cli.pc \in {"awaitInit", "listening", "shuttingDown"}
    /\ cli.sigSid = 0
    /\ Reserve
    /\ \E s \in Shutdowns :
          /\ shutdown(s)
          /\ cli' = [cli EXCEPT !.sigSid = s, !.closed = cli.connected]
    /\ UNCHANGED <<norm, pathCall, tools>>

\* main() resumed by waitForClose after server.close(): shutdown(0).
MainCloses ==
    /\ CloseRunnable
    /\ cliShutdown(0)

\* shutdown(0) of the signal handler resumed when its lspClient.shutdown()
\* has settled either way: process.exit(0).
SignalExit ==
    /\ SignalExitRunnable
    /\ cli' = [cli EXCEPT !.pc = "exited", !.exitCode = 0]
    /\ UNCHANGED <<clientVars, docVars, diagVars, envVars, wire, calls, shutdowns,
                   norm, pathCall, tools>>

NextSignals ==
    \/ Main
    \/ MainResumes
    \/ MainCloses
    \/ CliExit
    \/ SignalExit
    \/ ReadySignals /\ Signal
    \/ ReadySignals /\ TransportClose
    \/ ReadySignals /\ Reserve
         /\ \E c \in Calls, tool \in ToolNames, filePath \in Targets :
               CallTool(c, tool, filePath)
    \/ ReadySignals /\ \E c \in Calls : ReadFile(c) /\ UNCHANGED hostVars
    \/ ReadySignals /\ \E c \in Calls : request(c) /\ UNCHANGED hostVars
    \/ ReadySignals /\ \E c \in Calls : getDiagnostics(c) /\ UNCHANGED hostVars
    \/ ReadySignals /\ \E c \in Calls : DiagnosticsTimeout(c) /\ UNCHANGED hostVars
    \/ ReadySignals /\ \E uri \in Docs, diags \in DiagLists :
                          PublishDiagnostics(uri, diags) /\ UNCHANGED hostVars
    \/ ReadySignals /\ \E c \in Calls, response \in Responses \cup {"error"} :
                          Respond(c, response) /\ UNCHANGED hostVars
    \/ ReadySignals /\ \E uri \in Docs, content \in Contents \cup {Missing} :
                          Edit(uri, content) /\ UNCHANGED hostVars
    \/ ReadySignals /\ InitializeResponse /\ UNCHANGED hostVars
    \/ ReadySignals /\ InitializeRequestFails /\ UNCHANGED hostVars
    \/ ReadySignals /\ InitializeTimeout /\ UNCHANGED hostVars
    \/ ReadySignals /\ SpawnError /\ UNCHANGED hostVars
    \/ ReadySignals /\ ChildExit /\ UNCHANGED hostVars
    \/ ReadySignals /\ \E s \in Shutdowns, outcome \in {"ok", "error"} :
                          ShutdownResponse(s, outcome) /\ UNCHANGED hostVars

SpecSignals == InitServer /\ [][NextSignals]_vars

FairSpecSignals == SpecSignals /\ WF_vars(NextSignals)

\* ---------------------------------------------------------------- properties
InitErrors == {"InitTimeout", "SpawnError", "InitRequestFailed"}

\* Positions of the messages of a method, and of the document notifications,
\* written for a document.
Indices(method, uri) ==
    {i \in DOMAIN wire : wire[i].method = method /\ wire[i].uri = uri}
DocNotes(uri) ==
    {i \in DOMAIN wire : wire[i].method \in DocNotifications /\ wire[i].uri = uri}
Last(S) == CHOOSE i \in S : \A j \in S : j <= i

\* The text the server holds for a document when it reads message i.
ServerTextBefore(i, uri) ==
    LET notes == {j \in DocNotes(uri) : j < i} IN
    IF notes = {} THEN NoText ELSE wire[Last(notes)].text

\* The call has been through ensureDocument without an exception.
Synced(c) ==
    /\ calls[c].kind \in AnalysisKinds
    /\ \/ calls[c].pc \in {"awaitResp", "waitDiag", "done"}
       \/ calls[c].pc = "failed" /\ calls[c].err \in {"RemoteError", "ConnectionDisposed"}

\* The messages a step writes, and the step in which a call synchronizes.
NewMessages == SubSeq(wire', Len(wire) + 1, Len(wire'))
NewDocNotes == SelectSeq(NewMessages, LAMBDA m : m.method \in DocNotifications)
SyncStep(c) == calls[c].pc = "readDone" /\ calls'[c].pc # "readDone"

\* C1: for every document at most one didOpen is ever written; it exists
\* exactly when the document has a Document State, it is the first document
\* notification for that document, it carries version 1 and the text read by
\* a call that synchronized the document, and every call that synchronized
\* the document finds that one didOpen on the wire.
C1_DidOpenOnce ==
    \A d \in Docs :
        LET opens == Indices("textDocument/didOpen", d) IN
        /\ Cardinality(opens) <= 1
        /\ (openDocuments[d] # NoDoc) <=> (opens # {})
        /\ \A i \in opens :
              /\ wire[i].version = 1
              /\ \A j \in DocNotes(d) : i <= j
              /\ \E c \in Calls :
                    Synced(c) /\ calls[c].target = d /\ calls[c].text = wire[i].text
        /\ \A c \in Calls : (Synced(c) /\ calls[c].target = d) => opens # {}

\* Two calls that read different texts have synchronized the same document
\* and one didOpen was written for it.
C1_Witness ==
    \E c1, c2 \in Calls :
        /\ Synced(c1) /\ Synced(c2)
        /\ calls[c1].target = calls[c2].target
        /\ calls[c1].text # calls[c2].text
        /\ Cardinality(Indices("textDocument/didOpen", calls[c1].target)) = 1

\* C2: a call that synchronizes a document whose Document State holds the
\* text the call read writes no document notification and leaves every
\* Document State as it was.
C2_UnchangedSendsNothing ==
    [][\A c \in Calls :
          (/\ SyncStep(c)
           /\ openDocuments[calls[c].target] # NoDoc
           /\ openDocuments[calls[c].target].text = calls[c].text)
          => /\ NewDocNotes = <<>>
             /\ openDocuments' = openDocuments]_vars

\* Two calls that read the same text have synchronized the same document and
\* a single document notification was written for it.
C2_Witness ==
    \E c1, c2 \in Calls :
        /\ c1 # c2
        /\ Synced(c1) /\ Synced(c2)
        /\ calls[c1].target = calls[c2].target
        /\ calls[c1].text = calls[c2].text
        /\ Cardinality(DocNotes(calls[c1].target)) = 1

\* What a call that found a Document State with another text must do.
SendsOneChange(c) ==
    LET d == calls[c].target
        next == [version |-> openDocuments[d].version + 1, text |-> calls[c].text]
    IN /\ NewDocNotes = <<DidChangeMsg(d, next.version, next.text)>>
       /\ openDocuments' = [openDocuments EXCEPT ![d] = next]

ReadsChangedText(c) ==
    /\ SyncStep(c)
    /\ openDocuments[calls[c].target] # NoDoc
    /\ openDocuments[calls[c].target].text # calls[c].text

\* C3 as stated: every call that synchronizes a document whose Document State
\* holds another text than the call read writes exactly one didChange, with
\* the previous version + 1 and the text read, and leaves that in the state.
C3_AsStated ==
    [][\A c \in Calls : ReadsChangedText(c) => SendsOneChange(c)]_vars

\* C3 amended: that holds while the client has its connection; once
\* shutdown() has disposed it the call fails, writes nothing and leaves the
\* Document States as they were.
C3_ChangeSendsOne ==
    [][\A c \in Calls :
          ReadsChangedText(c) =>
             IF connection # "null"
             THEN SendsOneChange(c)
             ELSE /\ NewMessages = <<>>
                  /\ openDocuments' = openDocuments
                  /\ calls'[c].pc = "failed"]_vars

\* A didChange with version 2 is on the wire.
C3_Witness ==
    \E i \in DOMAIN wire :
        wire[i].method = "textDocument/didChange" /\ wire[i].version = 2

\* C4: when the server reads the request of an analysis call, the last
\* document notification it has read for that document carries the text the
\* call read from disk: the notification of the call's own synchronization
\* is written before its request.
C4_RequestAfterSync ==
    \A i \in DOMAIN wire :
        wire[i].method \in AnalysisMethods
          => ServerTextBefore(i, wire[i].uri) = calls[wire[i].id].text

\* A request directly follows the didChange its call wrote.
C4_Witness ==
    \E i \in DOMAIN wire :
        /\ i > 1
        /\ wire[i].method \in AnalysisMethods
        /\ wire[i - 1].method = "textDocument/didChange"
        /\ wire[i - 1].uri = wire[i].uri

\* C5: the subprocess is spawned at most once, the initialize request is
\* written at most once, and every caller of initialize(), direct or through
\* an analysis operation, observes the one outcome of initializePromise.
C5_InitializeOnce ==
    /\ spawnCount <= 1
    /\ Cardinality({i \in DOMAIN wire : wire[i].method = "initialize"}) <= 1
    /\ \A c \in Calls :
          /\ (calls[c].kind = "initialize" /\ calls[c].pc = "done")
                => initializePromise = "resolved" /\ calls[c].result = "InitializeResult"
          /\ calls[c].err \in InitErrors
                => initializePromise = "rejected" /\ calls[c].err = initError
          /\ (calls[c].kind = "initialize" /\ calls[c].pc = "failed")
                => calls[c].err \in InitErrors
          /\ Synced(c) => initializePromise = "resolved"

\* Two direct callers of initialize() have both got the result.
C5_Witness ==
    \E c1, c2 \in Calls :
        /\ c1 # c2
        /\ calls[c1].kind = "initialize" /\ calls[c1].pc = "done"
        /\ calls[c2].kind = "initialize" /\ calls[c2].pc = "done"

\* C6: no request other than the initialize request is written before the
\* initialized notification, which ends the handshake.
C6_NoRequestBeforeHandshake ==
    \A i \in DOMAIN wire :
        wire[i].method \in AnalysisMethods \cup {"shutdown"}
          => \E j \in 1..(i - 1) : wire[j].method = "initialized"

\* C7: a call made before the client is ready triggers the one
\* initialization and stays suspended while it is pending; it is past the
\* wait only when the handshake has succeeded; and when it fails, it fails
\* with the failure of the initialization itself, with a path outside the
\* root, an unreadable file, an answer or a disposal of its request, or a
\* connection that a shutdown() has taken away.
C7_WaitsForReady ==
    \A c \in Calls :
        LET call == calls[c] IN
        /\ call.pc # "idle" => spawnCount = 1
        /\ (initializePromise = "pending" /\ call.pc # "idle") => call.pc = "awaitInit"
        /\ call.pc = "awaitInit" => initializePromise = "pending"
        /\ call.pc \in {"reading", "readDone", "awaitResp", "waitDiag", "done"}
              => initializePromise = "resolved"
        /\ call.pc = "failed" =>
              \/ call.err \in InitErrors /\ initializePromise = "rejected"
                                        /\ call.err = initError
              \/ call.err = "PathEscape" /\ call.target = Outside
              \/ call.err = "ReadError"
              \/ call.err = "NoConnection" /\ connection = "null" /\ killCount > 0
              \/ call.err \in {"RemoteError", "ConnectionDisposed"}
                   /\ call.kind \in RequestKinds

\* Two analysis calls, the first of them made on the uninitialized client,
\* have synchronized their documents after one initialization.
C7_Witness ==
    \E c1, c2 \in Calls :
        /\ c1 # c2
        /\ Synced(c1) /\ Synced(c2)
        /\ spawnCount = 1
        /\ \A c \in Calls : calls[c].kind # "initialize"

\* C8: once the race of start() has settled, its timer is no longer pending.
C8_TimerCancelled ==
    initializePromise \in {"resolved", "rejected"} => timeoutHandle # "pending"

\* C9: a failed initialization stays the outcome: no second spawn, no second
\* initialize request, no initialized notification, and every call made on
\* the client, before or after the failure, has failed with that failure,
\* also when the initialize response arrives late.
C9_FailureIsFinal ==
    /\ spawnCount <= 1
    /\ Cardinality({i \in DOMAIN wire : wire[i].method = "initialize"}) <= 1
    /\ \A c \in Calls : calls[c].err \in InitErrors => initializePromise = "rejected"
    /\ initializePromise = "rejected" =>
          /\ initError \in InitErrors
          /\ \A i \in DOMAIN wire : wire[i].method # "initialized"
          /\ \A c \in Calls :
                \/ calls[c].pc = "idle"
                \/ calls[c].pc = "failed" /\ calls[c].err = initError

\* The initialization timed out, the initialize response arrived afterwards,
\* and two calls have failed with the timeout.
C9_Witness ==
    /\ initializePromise = "rejected"
    /\ initError = "InitTimeout"
    /\ initRequest = "answered"
    /\ \E c1, c2 \in Calls :
          /\ c1 # c2
          /\ calls[c1].err = "InitTimeout"
          /\ calls[c2].err = "InitTimeout"

\* C10: a getDiagnostics call that waits has its timer and its handler in
\* place and no report is cached for its document; a call that has returned
\* while no report has arrived for its document returned the empty report
\* of that document; and the call is never rejected by the wait.
C10_TimeoutGivesEmptyReport ==
    \A c \in Calls :
        calls[c].kind = "getDiagnostics" =>
          /\ calls[c].pc = "waitDiag" =>
                /\ c \in timers
                /\ c \in listeners[calls[c].target]
                /\ diagnostics[calls[c].target] = NoReport
          /\ (calls[c].pc = "done" /\ diagnostics[calls[c].target] = NoReport) =>
                /\ calls[c].report = EmptyReport(calls[c].target)
                /\ calls[c].err = "none"
          /\ calls[c].pc = "failed" =>
                calls[c].err \in InitErrors \cup {"PathEscape", "ReadError", "NoConnection"}

\* A getDiagnostics call has returned the empty report of its document and
\* no report has arrived for that document.
C10_Witness ==
    \E c \in Calls :
        /\ calls[c].kind = "getDiagnostics"
        /\ calls[c].pc = "done"
        /\ diagnostics[calls[c].target] = NoReport
        /\ calls[c].report = EmptyReport(calls[c].target)

\* C11: a getDiagnostics call that reaches the cache while a report is cached
\* for its document returns that report in the same step, and registers no
\* handler and arms no timer; a call that fails in the synchronization
\* registers nothing either.
C11_CachedReportReturned ==
    [][\A c \in Calls :
          (/\ SyncStep(c)
           /\ calls[c].kind = "getDiagnostics"
           /\ diagnostics[calls[c].target] # NoReport)
          => /\ listeners' = listeners
             /\ timers' = timers
             /\ diagnostics' = diagnostics
             /\ calls'[c].pc \in {"done", "failed"}
             /\ calls'[c].pc = "done" =>
                   calls'[c].report = diagnostics[calls[c].target]
             /\ calls'[c].pc = "failed" =>
                   calls'[c].err = "NoConnection" /\ connection = "null"]_vars

\* A getDiagnostics call has returned a non-empty report of its document
\* although its handler was never registered: the report was cached before
\* the call synchronized (a handler is registered only with an empty cache).
C11_Witness ==
    \E c \in Calls :
        /\ calls[c].kind = "getDiagnostics"
        /\ calls[c].pc = "done"
        /\ calls[c].report = diagnostics[calls[c].target]
        /\ calls[c].report.diagnostics = <<"e1">>
        /\ calls[c].resolves = 0

\* C12: the handler and the timer of a getDiagnostics call are registered
\* exactly while the call waits, so a notification after the timeout finds
\* no handler of the call and a timer never fires after the handler ran;
\* resolve() is called at most once per call, exactly once for a call that
\* waited and has returned; and a result that was returned never changes.
C12_WaiterResolvesOnce ==
    /\ [](\A c \in Calls :
            /\ (c \in timers) <=> (calls[c].pc = "waitDiag")
            /\ \A d \in Docs :
                  (c \in listeners[d]) <=> (calls[c].pc = "waitDiag" /\ calls[c].target = d)
            /\ calls[c].resolves <= 1
            /\ calls[c].resolves = 1 =>
                  calls[c].kind = "getDiagnostics" /\ calls[c].pc = "done")
    /\ [][\A c \in Calls : calls[c].pc = "done" => calls'[c] = calls[c]]_vars

\* A getDiagnostics call timed out and returned the empty report, and a
\* notification with diagnostics for its document arrived afterwards.
C12_Witness ==
    \E c \in Calls :
        /\ calls[c].kind = "getDiagnostics"
        /\ calls[c].pc = "done"
        /\ calls[c].resolves = 1
        /\ calls[c].report = EmptyReport(calls[c].target)
        /\ diagnostics[calls[c].target].diagnostics = <<"e1">>

\* C13: a publishDiagnostics notification resolves, in the step in which it
\* is handled, every getDiagnostics call that waits on its document, each
\* with the report of that notification; calls that wait on another document
\* keep waiting, and no waiting call fails.
C13_AllWaitersResolved ==
    [][\A d \in Docs :
          diagnostics'[d] # diagnostics[d] =>
             \A c \in Calls :
                calls[c].pc = "waitDiag" =>
                   IF calls[c].target = d
                   THEN /\ calls'[c].pc = "done"
                        /\ calls'[c].report = diagnostics'[d]
                        /\ calls'[c].err = "none"
                   ELSE calls'[c] = calls[c]]_vars

\* Two getDiagnostics calls waited on the same document and both returned
\* the report of the one notification that arrived for it.
C13_Witness ==
    \E c1, c2 \in Calls :
        /\ c1 # c2
        /\ calls[c1].kind = "getDiagnostics" /\ calls[c2].kind = "getDiagnostics"
        /\ calls[c1].target = calls[c2].target
        /\ calls[c1].pc = "done" /\ calls[c2].pc = "done"
        /\ calls[c1].resolves = 1 /\ calls[c2].resolves = 1
        /\ publishes = 1
        /\ calls[c1].report = diagnostics[calls[c1].target]
        /\ calls[c2].report = diagnostics[calls[c2].target]
        /\ calls[c1].report.diagnostics = <<"e1">>

\* The last notification received for a document, NoReport if there is none.
LatestReceived(d) ==
    LET for == {i \in DOMAIN received : received[i].uri = d} IN
    IF for = {} THEN NoReport ELSE received[Last(for)]

\* C14: the cache entry of every document is the parameters of the last
\* publishDiagnostics notification received for it (no entry when none was
\* received), and the cache changes only in the step that handles a
\* notification, and then only in the entry of that notification's document.
C14_CacheIsLatestReport ==
    /\ [](\A d \in Docs : diagnostics[d] = LatestReceived(d))
    /\ [][diagnostics' # diagnostics =>
            /\ Len(received') = Len(received) + 1
            /\ \A d \in Docs :
                  d # received'[Len(received')].uri => diagnostics'[d] = diagnostics[d]]_vars

\* A report with a diagnostic was replaced by a later, empty report for the
\* same document.
C14_Witness ==
    /\ Len(received) = 2
    /\ received[1].uri = received[2].uri
    /\ received[1].diagnostics = <<"e1">>
    /\ received[2].diagnostics = <<>>
    /\ diagnostics[received[2].uri] = received[2]

\* The step in which shutdown() is called.
ShutdownCalled(s) == shutdowns[s].pc = "idle" /\ shutdowns'[s].pc # "idle"

\* C15: connection and child are set and cleared together; a shutdown()
\* called while they are null (the client never initialized, or an earlier
\* shutdown() completed) returns in that step without an exception, and the
\* step changes nothing else: no message, no log entry, no kill, connection
\* and child still null.
C15_ShutdownIdempotent ==
    /\ []((connection = "null") <=> (child = "null"))
    /\ [][\A s \in Shutdowns :
            (ShutdownCalled(s) /\ connection = "null") =>
               /\ shutdowns'[s] = [pc |-> "done", err |-> "none"]
               /\ UNCHANGED <<clientVars, wire, docVars, diagVars, calls>>]_vars

\* A second shutdown() has returned after the first one completed: one
\* shutdown request, one kill.
C15_Witness ==
    /\ \A s \in Shutdowns : shutdowns[s].pc = "done"
    /\ killCount = 1
    /\ Cardinality({i \in DOMAIN wire : wire[i].method = "shutdown"}) = 1
    /\ connection = "null" /\ child = "null"

\* C16: no shutdown() call ends with an exception and the subprocess is
\* killed at most once, whatever else is in flight when shutdown() is called.
C16_ShutdownNeverThrows ==
    /\ \A s \in Shutdowns : shutdowns[s].pc # "failed"
    /\ killCount <= 1

\* The step in which a shutdown() disposes the connection.
Disposes == connection = "open" /\ connection' = "null"

\* C17: in the step in which shutdown() disposes the connection every call
\* whose analysis request is pending fails with the rejection of the dispose,
\* and every call that waits for the handshake fails as well; once the
\* connection is disposed no call waits for a response, and a call that is
\* still in flight waits for its file read, or for a diagnostics timer that
\* is armed.
C17_PendingRequestsFail ==
    /\ [][Disposes =>
            \A c \in Calls :
               /\ calls[c].pc = "awaitResp" =>
                     calls'[c].pc = "failed" /\ calls'[c].err = "ConnectionDisposed"
               /\ calls[c].pc = "awaitInit" => calls'[c].pc = "failed"]_vars
    /\ []((connection = "null" /\ spawnCount > 0) =>
            \A c \in Calls :
               /\ calls[c].pc \notin {"awaitResp", "awaitInit"}
               /\ calls[c].pc = "waitDiag" => c \in timers)

\* Two calls had their requests pending when shutdown() disposed the
\* connection and both failed with the rejection of the dispose.
C17_Witness ==
    /\ connection = "null"
    /\ \E c1, c2 \in Calls :
          /\ c1 # c2
          /\ calls[c1].pc = "failed" /\ calls[c1].err = "ConnectionDisposed"
          /\ calls[c2].pc = "failed" /\ calls[c2].err = "ConnectionDisposed"

\* The shutdown() calls that leave their wait for the shutdown response in a
\* step, and the number of warn entries about a failed shutdown in a log.
Resumed == {s \in Shutdowns : shutdowns[s].pc = "awaitShutdown" /\ shutdowns'[s].pc # "awaitShutdown"}
Warnings(entries) == Len(SelectSeq(entries, LAMBDA e : e = ShutdownFailedLog))

\* What shutdown() does to the connection and the child comes in the order
\* of the code: shutdown requests, then at most one exit notification right
\* after them, then the dispose, then the kill, and nothing after the kill.
EffectsInOrder ==
    \A i \in DOMAIN effects :
        /\ effects[i] = "shutdown" => \A j \in 1..(i - 1) : effects[j] = "shutdown"
        /\ effects[i] = "exit" => i > 1 /\ effects[i - 1] = "shutdown"
        /\ effects[i] = "dispose" =>
              /\ i > 1 /\ effects[i - 1] \in {"shutdown", "exit"}
              /\ i < Len(effects) /\ effects[i + 1] = "kill"
        /\ effects[i] = "kill" => i = Len(effects) /\ effects[i - 1] = "dispose"

\* C18: the shutdown request, the exit notification, the dispose and the
\* kill happen in that order, and the messages on the wire and the state of
\* the client agree with it; whenever shutdown() calls leave their wait for
\* the shutdown response, each of them that did not write its exit
\* notification has logged the failure at warn level, and after the step
\* the connection is disposed, the handles are null and the subprocess has
\* been killed, once.
C18_ShutdownSequence ==
    /\ [](/\ EffectsInOrder
          /\ \A i \in DOMAIN wire :
                wire[i].method = "exit" =>
                   /\ \E j \in 1..(i - 1) : wire[j].method = "shutdown"
                   /\ i = Len(wire)
                   /\ connection = "null"
          /\ killCount = Len(SelectSeq(effects, LAMBDA e : e = "kill"))
          /\ (connection = "null" /\ spawnCount > 0) <=> (killCount = 1))
    /\ [][Resumed # {} =>
            /\ Warnings(log') - Warnings(log)
                  = Cardinality(Resumed) - (Len(wire') - Len(wire))
            /\ connection' = "null" /\ child' = "null"
            /\ killCount' = 1
            /\ proc' \notin {"running", "silent"}]_vars

\* A shutdown() whose shutdown request failed has logged the failure and
\* has disposed the connection and killed the subprocess that was running.
C18_Witness ==
    /\ effects = <<"shutdown", "dispose", "kill">>
    /\ Warnings(log) = 1
    /\ shutdowns[1].pc = "done"
    /\ connection = "null" /\ child = "null"
    /\ proc = "killed"

\* C19: a shutdown() that waits for the answer to its shutdown request can
\* still be resumed, by an answer or by a failure of the request, so that it
\* goes on to kill the subprocess and returns.
C19_ShutdownCanComplete ==
    \A s \in Shutdowns :
        shutdowns[s].pc = "awaitShutdown" =>
           \E outcome \in {"ok", "error"} : ENABLED ShutdownResponse(s, outcome)

\* The step in which the subprocess exits, and whether the log has the
\* report of an unexpected exit.
Exits == proc # "exited" /\ proc' = "exited"
ReportedUnexpected(entries) == \E i \in DOMAIN entries : entries[i] = UnexpectedExitLog

\* C20 as stated: the exit is reported as unexpected exactly when no
\* shutdown() call has been made on the client before it.
C20_AsStated ==
    [][Exits =>
          (log' = Append(log, UnexpectedExitLog)
             <=> \A s \in Shutdowns : shutdowns[s].pc = "idle")]_vars

\* C20 amended: the exit is reported as unexpected exactly when no
\* shutdown() call has found a connection and written its shutdown request
\* before it, and otherwise the exit writes nothing to the log; a shutdown()
\* that returned at once on the client without connection does not count.
\* The report is written by no other step.
C20_ExitReported ==
    /\ [][Exits =>
            IF \A i \in DOMAIN wire : wire[i].method # "shutdown"
            THEN log' = Append(log, UnexpectedExitLog)
            ELSE log' = log]_vars
    /\ [][ReportedUnexpected(log') /\ ~ReportedUnexpected(log) => Exits]_vars
    /\ [](shuttingDown <=> \E i \in DOMAIN wire : wire[i].method = "shutdown")

\* The subprocess has exited after a shutdown() killed it and the exit was
\* not reported as unexpected.
C20_Witness ==
    /\ proc = "exited"
    /\ killCount = 1
    /\ shuttingDown
    /\ ~ReportedUnexpected(log)

\* The step in which the request of call c fails with an error answer.
RequestFails(c) ==
    /\ calls[c].pc = "awaitResp"
    /\ calls'[c].pc = "failed"
    /\ calls'[c].err = "RemoteError"

\* C21: the step in which one request is answered with an error changes the
\* call of that request only: the initialization outcome, the connection,
\* the subprocess handle, the document states, the diagnostics cache and its
\* waiters, the wire and every other call are as before, and a request of
\* another call that is pending can still be answered with a result.
C21_RequestFailureIsLocal ==
    /\ [][\A c \in Calls :
            RequestFails(c) =>
               /\ UNCHANGED <<clientVars, docVars, diagVars, wire, shutdowns>>
               /\ \A b \in Calls \ {c} : calls'[b] = calls[b]]_vars
    /\ [](\A c, b \in Calls :
            (/\ calls[c].pc = "failed" /\ calls[c].err = "RemoteError"
             /\ calls[b].pc = "awaitResp" /\ proc = "running")
            => ENABLED Respond(b, "value"))

\* The request of one call failed with an error answer and the request of a
\* later call on the same client, written after it, returned a result.
C21_Witness ==
    \E c, b \in Calls :
        /\ calls[c].pc = "failed" /\ calls[c].err = "RemoteError"
        /\ calls[b].pc = "done" /\ calls[b].kind \in RequestKinds
        /\ calls[b].result \in {"hover", "locations", "symbols"}
        /\ \E i, j \in DOMAIN wire :
              /\ i < j
              /\ wire[i].method \in AnalysisMethods /\ wire[i].id = c
              /\ wire[j].method \in AnalysisMethods /\ wire[j].id = b
        /\ connection = "open"

\* C22: an analysis operation called after shutdown() has disposed the
\* connection does not wait for anything but its file read and returns no
\* result: it fails.
C22_FailsAfterShutdown ==
    \A c \in Calls :
        (calls[c].late /\ calls[c].kind \in AnalysisKinds)
        => calls[c].pc \in {"reading", "readDone", "failed"}

\* C23: the step in which an operation is called with a path outside the
\* workspace root spawns nothing and writes nothing.
C23_PathRejectedFirst ==
    [][\A c \in Calls :
          (calls[c].pc = "idle" /\ calls'[c].target = Outside)
          => /\ spawnCount' = spawnCount
             /\ wire' = wire
             /\ calls'[c].pc = "failed" /\ calls'[c].err = "PathEscape"]_vars

\* The positions of the messages of a method on the wire.
Written(method) == {i \in DOMAIN wire : wire[i].method = method}

\* C27: the initialize request is the first message on the wire and is
\* written once; the initialized notification is written at most once, after
\* the initialize request, and it is on the wire exactly when initialize()
\* has resolved, which takes an answered initialize request; after a lost
\* race it is never written, whatever arrives later.
C27_HandshakeOrdered ==
    /\ wire # <<>> => wire[1] = InitializeMsg
    /\ Cardinality(Written("initialize")) = (IF spawnCount > 0 THEN 1 ELSE 0)
    /\ Cardinality(Written("initialized")) <= 1
    /\ (Written("initialized") # {}) <=> (initializePromise = "resolved")
    /\ initializePromise = "resolved" => initRequest = "answered"
    /\ \A c \in Calls :
          (calls[c].kind = "initialize" /\ calls[c].pc = "done")
             => Written("initialized") # {}

\* The initialization timer or the spawn error won the race, the initialize
\* response arrived afterwards, and no initialized notification was written.
C27_Witness ==
    /\ initializePromise = "rejected"
    /\ initError \in {"InitTimeout", "SpawnError"}
    /\ initRequest = "answered"
    /\ Written("initialized") = {}
    /\ wire[1] = InitializeMsg

\* The document notifications written for a document, in order.
NotesOf(d) == SelectSeq(wire, LAMBDA m : m.method \in DocNotifications /\ m.uri = d)

\* C28: the k-th document notification written for a document carries
\* version k, the first is the didOpen and the others are didChange; the
\* Document State is absent when nothing was written and otherwise holds the
\* version and the text of the last notification.
C28_VersionsInSequence ==
    \A d \in Docs :
        LET notes == NotesOf(d) IN
        /\ \A k \in DOMAIN notes :
              /\ notes[k].version = k
              /\ notes[k].method = (IF k = 1 THEN "textDocument/didOpen"
                                             ELSE "textDocument/didChange")
        /\ openDocuments[d] = (IF notes = <<>> THEN NoDoc
                               ELSE [version |-> Len(notes),
                                     text |-> notes[Len(notes)].text])

\* A didOpen and a didChange were written for a document, with versions 1
\* and 2 and different texts, and the Document State holds the second.
C28_Witness ==
    \E d \in Docs :
        /\ Len(NotesOf(d)) = 2
        /\ NotesOf(d)[1].text # NotesOf(d)[2].text
        /\ openDocuments[d] = [version |-> 2, text |-> NotesOf(d)[2].text]

\* C29: when one call has synchronized a document with the content the file
\* had at first and another call has synchronized it with the content the
\* file was changed to, which was read later, the last document notification
\* written for the document carries the later content.
C29_LaterReadWins ==
    \A d \in Docs :
        \A a, b \in Calls :
           (/\ Synced(a) /\ Synced(b)
            /\ calls[a].target = d /\ calls[b].target = d
            /\ calls[a].text = "c1" /\ calls[b].text = "c2"
            /\ disk[d] = "c2")
           => NotesOf(d)[Len(NotesOf(d))].text = "c2"

\* C30: a getDiagnostics call that writes a didChange for its document does
\* not return in that step, with a report that was cached before the change.
C30_ReportAfterChange ==
    [][\A c \in Calls :
          (/\ SyncStep(c)
           /\ calls[c].kind = "getDiagnostics"
           /\ NewDocNotes # <<>>
           /\ NewDocNotes[1].method = "textDocument/didChange")
          => calls'[c].pc # "done"]_vars

\* C25: getDefinition turns every answer into a list of plain locations: null
\* gives the empty list, one location gives a list of that location, and an
\* array gives a list of the same length and order where a location link has
\* become {uri: targetUri, range: targetSelectionRange if present, else
\* targetRange} and a plain location is returned as it is.
C25_DefinitionNormalized ==
    norm.returned =>
        LET a == norm.input
            out == norm.output
        IN
        /\ a.kind = "null" => out = <<>>
        /\ a.kind = "location" => out = <<a.value>>
        /\ a.kind = "array" =>
              /\ Len(out) = Len(a.value)
              /\ \A i \in 1..Len(a.value) :
                    LET e == a.value[i] IN
                    IF e \in LinksWithSelection
                    THEN out[i] = [uri |-> e.targetUri, range |-> e.targetSelectionRange]
                    ELSE IF e \in LinksWithoutSelection
                    THEN out[i] = [uri |-> e.targetUri, range |-> e.targetRange]
                    ELSE out[i] = e
              /\ (\A i \in 1..Len(a.value) : a.value[i] \notin OddEntries)
                    => \A i \in 1..Len(out) : out[i] \in Locations

C25_Witness ==
    /\ norm.returned
    /\ norm.input.kind = "array"
    /\ Len(norm.input.value) = 3
    /\ norm.input.value[1] \in LinksWithSelection
    /\ norm.input.value[1].targetSelectionRange # norm.input.value[1].targetRange
    /\ norm.input.value[2] \in Locations
    /\ norm.input.value[3] \in LinksWithoutSelection
    /\ Len(norm.output) = 3

\* C24: each of the five tool handlers rejects a filePath that resolves
\* outside the workspace root before it calls any method of the LSP client:
\* a tool call with such a path never becomes a call of a client method.
C24_PathRejectedBeforeClient ==
    \A c \in Calls :
        (tools[c].tool \in ToolNames /\ tools[c].filePath = Outside)
        => calls[c].kind = "-"

\* main() has seen initialize() reject; the process has exited with `code`.
InitFailed == cli.pc = "awaitInit" /\ initializePromise = "rejected"
ExitedWith(code) == cli.pc = "exited" /\ cli.exitCode = code

\* C26: the CLI connects the MCP server only after lspClient.initialize() has
\* resolved; when initialization fails the server is never connected and the
\* process exits with code 1.
C26_EagerInitialize ==
    /\ [](cli.connected => initializePromise = "resolved")
    /\ [](InitFailed => <>(ExitedWith(1) /\ ~cli.connected))

\* The notification a step receives for the document a call asks about.
Arrives(c) ==
    /\ received' # received
    /\ received'[Len(received')].uri = calls[c].target

\* C31: no notification is lost between the cache check and the registration
\* of the waiter.  A getDiagnostics call starts to wait only when nothing is
\* cached for its document, and from then on its handler and its timer are
\* registered; the first report that arrives for the document while it waits
\* is what it returns, and it returns the empty report only when its timer
\* fires with no report having arrived.
C31_NoReportLost ==
    /\ [](\A c \in Calls :
            calls[c].pc = "waitDiag" => c \in listeners[calls[c].target] /\ c \in timers)
    /\ [][\A c \in Calls :
            /\ (SyncStep(c) /\ calls'[c].pc = "waitDiag")
                 => diagnostics[calls[c].target] = NoReport
            /\ calls[c].pc = "waitDiag" =>
                 /\ calls'[c].pc \in {"waitDiag", "done"}
                 /\ Arrives(c) => /\ calls'[c].pc = "done"
                                  /\ calls'[c].report = received'[Len(received')]
                 /\ (calls'[c].pc = "done" /\ ~Arrives(c))
                      => /\ calls'[c].report = EmptyReport(calls[c].target)
                         /\ c \in timers /\ c \notin timers']_vars

C31_Witness ==
    \E c \in Calls :
        /\ calls[c].kind = "getDiagnostics"
        /\ calls[c].pc = "done"
        /\ calls[c].resolves = 1
        /\ Len(received) = 2
        /\ received[1].uri = calls[c].target
        /\ received[2].uri = calls[c].target
        /\ received[1].diagnostics = <<"e1">>
        /\ received[2].diagnostics = <<>>
        /\ calls[c].report = received[1]

\* The errors with which document synchronization fails: the path leaves the
\* root, the file cannot be read, there is no connection.
SyncErrors == {"PathEscape", "ReadError", "NoConnection"}
SyncFails(c) ==
    /\ calls[c].pc # "failed"
    /\ calls'[c].pc = "failed"
    /\ calls'[c].err \in SyncErrors

\* C32: when document synchronization fails for a call, the failing step
\* writes no document notification and no analysis request, no request of
\* that call is ever on the wire, no Document State is created and every
\* existing Document State keeps its version and text.
C32_FailedSyncChangesNothing ==
    /\ [](\A c \in Calls :
            (calls[c].pc = "failed" /\ calls[c].err \in SyncErrors)
            => \A i \in DOMAIN wire :
                  ~(wire[i].method \in AnalysisMethods /\ wire[i].id = c))
    /\ [][\A c \in Calls :
            SyncFails(c) =>
                /\ NewDocNotes = <<>>
                /\ \A i \in DOMAIN NewMessages :
                      NewMessages[i].method \notin AnalysisMethods
                /\ openDocuments' = openDocuments]_vars

C32_Witness ==
    \E c \in Calls :
        /\ calls[c].pc = "failed"
        /\ calls[c].err = "NoConnection"
        /\ calls[c].text = "c2"
        /\ openDocuments[calls[c].target] = [version |-> 1, text |-> "c1"]
        /\ NotesOf(calls[c].target) = <<DidOpenMsg(calls[c].target, 1, "c1")>>

\* Closed: a shutdown() has disposed the connection of a client that had
\* started its subprocess.  Frozen: the step spawns nothing, creates no
\* connection, writes no message and leaves the Document States alone.
Closed == spawnCount > 0 /\ connection = "null"
Frozen ==
    /\ spawnCount' = spawnCount
    /\ connection' = connection
    /\ child' = child
    /\ wire' = wire
    /\ openDocuments' = openDocuments

\* C33 as stated: once any shutdown() has completed, nothing is spawned,
\* connected or written any more and the Document States never change.
C33_AsStated ==
    [][(\E s \in Shutdowns : shutdowns[s].pc = "done") => Frozen]_vars

\* C33: Closed is terminal.  Once a shutdown() has torn down the connection
\* of a started client, no step (of a later initialize(), analysis operation
\* or shutdown(), or of a call still in flight) spawns a subprocess, creates
\* a connection or writes a message, and the Document States never change.
C33_ClosedIsTerminal ==
    [][Closed => Frozen]_vars

C33_Witness ==
    \E c \in Calls, s \in Shutdowns :
        /\ Closed
        /\ shutdowns[s].pc = "done"
        /\ calls[c].late
        /\ calls[c].kind = "initialize"
        /\ calls[c].pc = "done"
        /\ spawnCount = 1
        /\ killCount = 1

\* shutdown(exitCode) of cli.ts has been called, and the codes it was called
\* with: 0 by a signal handler, cli.exitCode by main() or its catch handler.
Triggered == cli.pc = "shuttingDown" \/ cli.sigSid # 0
TriggerCodes ==
    (IF cli.sigSid # 0 THEN {0} ELSE {})
      \cup (IF cli.pc = "shuttingDown" THEN {cli.exitCode} ELSE {})

\* C34: the shutdown routine of the CLI always terminates the process.  Once
\* shutdown(exitCode) has been called, for a signal, for the close of the
\* transport or on an error path, and also when it is called more than once,
\* the process exits, and it exits with the code of a call that was made: 0
\* for a signal or a normal close, 1 for an error path.
C34_ShutdownTerminates ==
    /\ [](Triggered => <>(cli.pc = "exited"))
    /\ [][(cli.pc # "exited" /\ cli'.pc = "exited")
            => cli'.exitCode \in TriggerCodes]_vars

\* Where an input path leads, and whether that is the root or below it.
Destination(inputPath) ==
    IF inputPath.absolute
    THEN pathResolve(<<>>, inputPath.segments)
    ELSE pathResolve(WorkspaceRoot, inputPath.segments)
InRoot(path) ==
    /\ Len(path) >= Len(WorkspaceRoot)
    /\ SubSeq(path, 1, Len(WorkspaceRoot)) = WorkspaceRoot

\* C35: toAbsolutePath returns the resolved absolute path for every input
\* that resolves to the root or to a place inside it, whatever the names on
\* the way, and throws for every input that resolves outside the root.
C35_InRootAccepted ==
    pathCall.returned =>
        LET destination == Destination(pathCall.input) IN
        IF InRoot(destination)
        THEN ~pathCall.result.threw /\ pathCall.result.path = destination
        ELSE pathCall.result.threw
====
